---- MODULE Spec2Model ----
(***************************************************************************)
(* Model of the retry package of duh.go: the retry loop Do (retry.go), the *)
(* policies and intervals it is configured with, and the Budget interface  *)
(* (noOpBudget and a caller-supplied Budget) it consults.                  *)
(*                                                                         *)
(* Durations are counted in units of 100ns, so that every duration the     *)
(* model computes within its bounds is the exact value the Go code         *)
(* computes in nanoseconds, divided by 100.                                *)
(***************************************************************************)
EXTENDS Integers, Sequences, FiniteSets, TLC

\* ------------------------------------------------------------------ bounds
\* The attempt counter is capped: no sleep starts once attempt = MaxAttempt.
MaxAttempt == 4
\* Largest Policy.Attempts value drawn in Init (0 = unlimited is always drawn).
MaxCap == 3

\* ------------------------------------------------------- time.Duration units
Millisecond == 10000
Second == 10000000
Minute == 600000000

\* ------------------------------------------------------------ error values
\* Status codes an operation's duh.Error may carry.
Codes == {404, 500}

\* The values Do can return, and the outcomes of an operation invocation.
\* kind "none": Do has not returned; "nil": no error; "ctx": ctx.Err();
\* "op": the error returned by the inv-th invocation of the operation, which
\* is a duh.Error carrying `code` iff hasCode.
NoReturn == [kind |-> "none", inv |-> 0, hasCode |-> FALSE, code |-> 0]
NilErr == [kind |-> "nil", inv |-> 0, hasCode |-> FALSE, code |-> 0]
CtxErr == [kind |-> "ctx", inv |-> 0, hasCode |-> FALSE, code |-> 0]
OpErr(k, hasCode, code) == [kind |-> "op", inv |-> k, hasCode |-> hasCode, code |-> code]

\* What the k-th invocation of the operation may return.
OpOutcomes(k) ==
    {NilErr, OpErr(k, FALSE, 0)} \cup {OpErr(k, TRUE, c) : c \in Codes}

\* ---------------------------------------------------------------- intervals
\* An Interval value: kind "nil" (no Interval configured), "sleep"
\* (IntervalSleep(d)) or "backoff" (IntervalBackOff; Factor and Jitter are the
\* rationals FactorNum/FactorDen and JitterNum/JitterDen).
NilInterval ==
    [kind |-> "nil", d |-> 0, Min |-> 0, Max |-> 0, FactorNum |-> 1,
     FactorDen |-> 1, JitterNum |-> 0, JitterDen |-> 1, hasRand |-> FALSE]

IntervalSleep(d) ==
    [kind |-> "sleep", d |-> d, Min |-> 0, Max |-> 0, FactorNum |-> 1,
     FactorDen |-> 1, JitterNum |-> 0, JitterDen |-> 1, hasRand |-> FALSE]

IntervalBackOff(min, max, fnum, fden, jnum, jden, hasRand) ==
    [kind |-> "backoff", d |-> 0, Min |-> min, Max |-> max, FactorNum |-> fnum,
     FactorDen |-> fden, JitterNum |-> jnum, JitterDen |-> jden,
     hasRand |-> hasRand]

\* The draws of Rand.Float64() the model considers: r = RandNum / RandDen.
RandDen == 2
RandDraws == 0 .. (RandDen - 1)

RECURSIVE Pow(_, _)
Pow(b, e) == IF e = 0 THEN 1 ELSE b * Pow(b, e - 1)

\* time.Duration(float64(min) * math.Pow(factor, attempts)): the product,
\* truncated toward zero.
BackOffBase(b, attempts) ==
    LET N == Pow(b.FactorNum, attempts)
        D == Pow(b.FactorDen, attempts)
    IN  (b.Min \div D) * N + ((b.Min % D) * N) \div D

\* time.Duration(f) of a float64 f = n / d with d > 0: the fraction is
\* dropped, toward zero for a negative f as well.
TruncQuot(n, d) == IF n >= 0 THEN n \div d ELSE -((-n) \div d)

\* time.Duration(lower + r*(upper-lower)) with upper = d + d*Jitter and
\* lower = d - d*Jitter.
BackOffJitter(b, d, r) ==
    TruncQuot(d * ((b.JitterDen - b.JitterNum) * RandDen + 2 * r * b.JitterNum),
              b.JitterDen * RandDen)

IntervalBackOffNext(b, attempts, r) ==
    LET d0 == BackOffBase(b, attempts)
        d == IF b.hasRand THEN BackOffJitter(b, d0, r) ELSE d0
    IN  IF d > b.Max THEN b.Max
        ELSE IF d < b.Min THEN b.Min
        ELSE d

IntervalSleepNext(s, attempts) == s.d

\* Interval.Next(attempts), r being the draw of the random source.
IntervalNext(i, attempts, r) ==
    IF i.kind = "sleep" THEN IntervalSleepNext(i, attempts)
    ELSE IntervalBackOffNext(i, attempts, r)

\* ----------------------------------------------------------------- policies
NilCodes == [isNil |-> TRUE, codes |-> <<>>]
CodeList(s) == [isNil |-> FALSE, codes |-> s]

MkPolicy(interval, onCodes, budget, attempts) ==
    [Interval |-> interval, OnCodes |-> onCodes, Budget |-> budget,
     Attempts |-> attempts]

PolicyDefault_Capped ==
    MkPolicy(IntervalBackOff(500 * Millisecond, Minute, 3, 2, 1, 2, TRUE),
             NilCodes, "nil", 2)

PolicyDefault ==
    MkPolicy(IntervalBackOff(500 * Millisecond, Minute, 3, 2, 1, 2, TRUE),
             NilCodes, "nil", 0)

\* The policies Do is called with: every combination of an interval, an
\* allowlist, a budget ("nil", or "custom": a Budget supplied by the caller)
\* and an attempt cap.
Intervals == {NilInterval, IntervalSleep(2 * Second), PolicyDefault.Interval}
AllowLists == {NilCodes, CodeList(<<>>), CodeList(<<500>>)}
Budgets == {"nil", "custom"}
Policies ==
    {MkPolicy(i, c, b, n) :
        i \in Intervals, c \in AllowLists, b \in Budgets, n \in 0 .. MaxCap}

\* -------------------------------------------------------------------- state
VARIABLES
    entry,      \* the entry point called: "Do" or "Until"
    p,          \* the Policy Do was called with
    pc,         \* where Do is: "loop", "inop", "sleeping", "done"
    attempt,    \* Do's attempt counter
    cancelled,  \* ctx.Done() is closed
    ret,        \* the value Do returned (NoReturn before it returns)
    calls,      \* attempt numbers passed to the operation, in order
    outcomes,   \* what each invocation of the operation returned
    sleeps,     \* the time.Sleep calls made
    budget,     \* calls received by the caller's Budget
    isOverLog,  \* the answers of the caller's Budget.IsOver
    sleepDur,   \* duration of the current time.Sleep
    slept,      \* how much of it has elapsed
    \* one MovingRateRing driven by Add and Rate calls
    mr,         \* the MovingRateRing
    call,       \* the call made last, Add(t, hits) or Rate(t), and its result
    hist,       \* the hits each second received from the Add calls not ignored
    \* one budget shared by concurrent callers
    clock,      \* time.Now()
    mutex,      \* budget.mutex: the caller holding it, 0 when unlocked
    bud,        \* the budget: ratio, success and failure estimators
    th,         \* each caller's position in its call of a budget method
    failureCalled, \* Failure has been called on the budget
    \* one *rand.Rand shared by concurrent sessions
    rng,        \* the state of the random source
    rth,        \* each session's position in Rand.Float64()
    \* the three estimator variants driven by one sequence of calls
    sl,         \* the slice-based MovingRate (budget.go)
    mv,         \* the movingRate (moving.go)
    vnow,       \* the time of the next call
    vcall,      \* the call made last on the variants and each one's result
    gaps,       \* the quiet periods longer than the window so far
    \* one evaluation of IntervalBackOff.Next
    bo,         \* the interval, the attempt number, the draw and the result
    \* Do sessions running for ever on one ratio budget
    wall,       \* time.Now(), kept within one second by shifting all times
    shared,     \* the budget the sessions share
    sess,       \* each session: where Do is, what is left of its sleep,
                \* whether its last pass through the loop was budget-blocked
    svc,        \* the resource the operation calls: "down" or "up"
    failAt      \* the second of the last failure hit the shared budget took
                \* (0: none yet)

doVars == <<entry, p, pc, attempt, cancelled, ret, calls, outcomes, sleeps,
            budget, isOverLog, sleepDur, slept>>
ringVars == <<mr, call, hist>>
budVars == <<clock, mutex, bud, th, failureCalled>>
rndVars == <<rng, rth>>
gapVars == <<sl, mv, vnow, vcall, gaps>>
boVars == <<bo>>
liveVars == <<wall, shared, sess, svc, failAt>>

vars == <<doVars, ringVars, budVars, rndVars, gapVars, boVars, liveVars>>

Last(s) == s[Len(s)]

\* --------------------------------------------------------- rate estimator
\* Instants are counted in ticks, TicksPerSecond to the second; instant 0 is
\* the zero time.Time, and every call is made at an instant of second 1 or
\* later.  Rates are exact rationals num/den in lowest terms, or NaN.
TicksPerSecond == 2
\* The last second the model's clock reaches.
MaxSec == 3
\* Largest window size (numBuckets) an estimator is created with.
MaxWindow == 2
\* Largest hit count of one Add call, and of one bucket.
MaxHits == 1
MaxBucket == 1
\* The budget's window in seconds (60 in NewBudget), the last clock tick and
\* the calls one session makes on the budget.
BudgetWindow == 1
MaxClock == 4
MaxCalls == 2
\* The jitter draws one session makes.
MaxDraws == 3
\* The last instant of a call on the estimator variants, in ticks.
MaxNow == 23
\* The largest time.Duration (the int64 range, scaled down) and the largest
\* attempt number passed to IntervalBackOff.Next.
MaxDuration == 127
MaxBoAttempt == 5

Times == TicksPerSecond .. (MaxSec * TicksPerSecond + TicksPerSecond - 1)

RECURSIVE GCD(_, _)
GCD(a, b) == IF b = 0 THEN a ELSE GCD(b, a % b)

NaN == [nan |-> TRUE, num |-> 0, den |-> 1]
\* The fraction x[1]/x[2] in lowest terms.
Lowest(x) ==
    [nan |-> FALSE,
     num |-> x[1] \div GCD(IF x[1] < 0 THEN -x[1] ELSE x[1], x[2]),
     den |-> x[2] \div GCD(IF x[1] < 0 THEN -x[1] ELSE x[1], x[2])]

\* n/d; n and d are evaluated once, then reduced.
Rat(n, d) == CHOOSE r \in {Lowest(x) : x \in {<<n, d>>}} : TRUE

\* time.Time.Round(time.Second): halfway values round up.
RoundSecond(t) ==
    LET r == t % TicksPerSecond
    IN  IF r + r < TicksPerSecond THEN t - r ELSE t + TicksPerSecond - r

roundDown_Nearest(now) == RoundSecond(now)

\* budget.go:18-24
roundDown(now) ==
    LET r == RoundSecond(now)
    IN  IF r > now THEN r - TicksPerSecond ELSE r

\* part_003:16-21
NewMovingRateRing(numBuckets) ==
    [last |-> 0, buckets |-> [i \in 0 .. numBuckets |-> 0],
     numBuckets |-> numBuckets, pos |-> 0]

BucketsLen(m) == Cardinality(DOMAIN m.buckets)

\* The number of buckets shiftWindow advances by (part_003:40-47).
Advance_Uncapped(m, now) ==
    (roundDown(now) - roundDown(m.last)) \div TicksPerSecond

Advance(m, now) ==
    LET adv == (roundDown(now) - roundDown(m.last)) \div TicksPerSecond
    IN  IF adv > m.numBuckets + 1 THEN m.numBuckets + 1 ELSE adv

\* The window shift advancing by one bucket at least on every call.
shiftWindow_AlwaysAdvance(m, now) ==
    IF m.last = 0
    THEN [m EXCEPT !.last = now]
    ELSE LET adv == IF Advance(m, now) < 1 THEN 1 ELSE Advance(m, now)
             cleared == {(m.pos + i) % BucketsLen(m) : i \in 1 .. adv}
         IN  [m EXCEPT !.buckets = [j \in DOMAIN m.buckets |->
                                       IF j \in cleared THEN 0 ELSE m.buckets[j]],
                       !.pos = (m.pos + adv) % BucketsLen(m),
                       !.last = now]
\* The window shift clearing from the current bucket on, not from the next.
shiftWindow_ClearFromPos(m, now) ==
    IF m.last = 0 \/ ~(roundDown(now) > m.last)
    THEN [m EXCEPT !.last = now]
    ELSE LET adv == Advance(m, now)
             cleared == {(m.pos + i) % BucketsLen(m) : i \in 0 .. (adv - 1)}
         IN  [m EXCEPT !.buckets = [j \in DOMAIN m.buckets |->
                                       IF j \in cleared THEN 0 ELSE m.buckets[j]],
                       !.pos = (m.pos + adv) % BucketsLen(m),
                       !.last = now]

\* The window shift moving to the new bucket without clearing any.
shiftWindow_NoClear(m, now) ==
    IF m.last = 0 \/ ~(roundDown(now) > m.last)
    THEN [m EXCEPT !.last = now]
    ELSE [m EXCEPT !.pos = (m.pos + Advance(m, now)) % BucketsLen(m),
                   !.last = now]

\* part_003:27-58; the deferred mr.last = now runs on every path.
shiftWindow(m, now) ==
    IF m.last = 0 \/ ~(roundDown(now) > m.last)
    THEN [m EXCEPT !.last = now]
    ELSE LET adv == Advance(m, now)
             cleared == {(m.pos + i) % BucketsLen(m) : i \in 1 .. adv}
         IN  [m EXCEPT !.buckets = [j \in DOMAIN m.buckets |->
                                       IF j \in cleared THEN 0 ELSE m.buckets[j]],
                       !.pos = (m.pos + adv) % BucketsLen(m),
                       !.last = now]

RingAdd_NoGuard(m, now, hits) ==
    LET s == shiftWindow(m, now)
    IN  [s EXCEPT !.buckets[s.pos] = @ + hits]

\* part_003:60-67
RingAdd(m, now, hits) ==
    IF now < m.last
    THEN m
    ELSE LET s == shiftWindow(m, now)
         IN  [s EXCEPT !.buckets[s.pos] = @ + hits]

\* The counts of the non-zero buckets, oldest first (part_003:80-92).
RECURSIVE NonZero(_, _)
NonZero(m, i) ==
    IF i > BucketsLen(m) THEN <<>>
    ELSE LET c == m.buckets[(m.pos + i) % BucketsLen(m)]
         IN  IF c = 0 THEN NonZero(m, i + 1) ELSE <<c>> \o NonZero(m, i + 1)

RECURSIVE SumSeq(_)
SumSeq(q) == IF q = <<>> THEN 0 ELSE Head(q) + SumSeq(Tail(q))

\* part_003:76-111, on the ring the window shift left.
\* The rate with no special case for an empty window: 0 hits over 0 buckets.
RingRateOf_NaNWhenEmpty(s) ==
    LET nz == NonZero(s, 1)
        bucketsUsed == Len(nz)
        first == IF nz = <<>> THEN 0 ELSE Head(nz)
        sum == IF nz = <<>> THEN 0 ELSE SumSeq(Tail(nz))
        frac == s.last - roundDown(s.last)
        notFull == bucketsUsed < BucketsLen(s)
        seconds == IF notFull
                   THEN (bucketsUsed - 1) * TicksPerSecond + frac
                   ELSE s.numBuckets * TicksPerSecond
        total == IF notFull
                 THEN (sum + first) * TicksPerSecond
                 ELSE sum * TicksPerSecond + (TicksPerSecond - frac) * first
    IN  IF bucketsUsed = 0 THEN NaN
        ELSE Rat(total,
                 IF seconds < TicksPerSecond THEN TicksPerSecond ELSE seconds)
RingRateOf(s) ==
    LET nz == NonZero(s, 1)
        bucketsUsed == Len(nz)
        first == IF nz = <<>> THEN 0 ELSE Head(nz)
        sum == IF nz = <<>> THEN 0 ELSE SumSeq(Tail(nz))
        frac == s.last - roundDown(s.last)
        notFull == bucketsUsed < BucketsLen(s)
        seconds == IF notFull
                   THEN (bucketsUsed - 1) * TicksPerSecond + frac
                   ELSE s.numBuckets * TicksPerSecond
        total == IF notFull
                 THEN (sum + first) * TicksPerSecond
                 ELSE sum * TicksPerSecond + (TicksPerSecond - frac) * first
    IN  Rat(total, IF seconds < TicksPerSecond THEN TicksPerSecond ELSE seconds)

\* Rate refusing a query at the last recorded time itself.
RingRate_NotAfter(m, now) ==
    IF now <= m.last THEN [mr |-> m, rate |-> NaN]
    ELSE [mr |-> shiftWindow(m, now), rate |-> RingRateOf(shiftWindow(m, now))]
RingRate_NoGuard(m, now) ==
    [mr |-> shiftWindow(m, now), rate |-> RingRateOf(shiftWindow(m, now))]

\* part_003:69-112: the estimator after the call, and the rate returned.
RingRate(m, now) ==
    IF now < m.last
    THEN [mr |-> m, rate |-> NaN]
    ELSE CHOOSE r \in {[mr |-> s, rate |-> RingRateOf(s)] :
                          s \in {shiftWindow(m, now)}} : TRUE

\* ------------------------------------------------------------------ budget
\* The ratios a budget is created with, as num/den.
Ratios == {[num |-> 0 - 1, den |-> 1], [num |-> 0, den |-> 1],
           [num |-> 1, den |-> 2], [num |-> 2, den |-> 1]}

\* NewRate(n), the estimator of a budget.
NewRate(n) == NewMovingRateRing(n)

\* part_004:32-38, with a window of `window` seconds.
NewBudget(ratio) ==
    [ratio |-> ratio, success |-> NewRate(BudgetWindow),
     failure |-> NewRate(BudgetWindow)]

\* part_004:42-46, inside the lock.
budgetFailure(b, now, hits) == [b EXCEPT !.failure = RingAdd(@, now, hits)]

\* part_004:50-54, inside the lock.
budgetSuccess(b, now, hits) == [b EXCEPT !.success = RingAdd(@, now, hits)]

\* failureRate/successRate > ratio in float64: x/0 is +Inf for x > 0, NaN for
\* x = 0, and no comparison with NaN holds.
QuotientExceeds(fr, sr, ratio) ==
    IF fr.nan \/ sr.nan THEN FALSE
    ELSE IF sr.num = 0 THEN fr.num > 0
    ELSE fr.num * sr.den * ratio.den > ratio.num * sr.num * fr.den

IsOverOf_NoZeroCheck(fr, sr, ratio) == QuotientExceeds(fr, sr, ratio)

IsOverOf_ZeroSuccessUnder(fr, sr, ratio) ==
    IF ~fr.nan /\ fr.num = 0 THEN FALSE
    ELSE IF ~sr.nan /\ sr.num = 0 THEN FALSE
    ELSE QuotientExceeds(fr, sr, ratio)

\* part_004:65-71
IsOverOf(fr, sr, ratio) ==
    IF ~fr.nan /\ fr.num = 0 THEN FALSE
    ELSE QuotientExceeds(fr, sr, ratio)

\* part_004:58-72, inside the lock: the budget after the call, the two rates
\* read and the answer.
budgetIsOver(b, now) ==
    CHOOSE r \in
        {[bud |-> [b EXCEPT !.failure = f.mr, !.success = s.mr],
          fr |-> f.rate, sr |-> s.rate,
          over |-> IsOverOf(f.rate, s.rate, b.ratio)] :
            f \in {RingRate(b.failure, now)},
            s \in {RingRate(b.success, now)}} : TRUE

\* -------------------------------------------------- states of the idle parts
NoCall == [op |-> "none", t |-> 0, hits |-> 0, rate |-> NaN]
Threads == 1 .. 2
IdleThread == [pc |-> "idle", m |-> "none", now |-> 0, over |-> FALSE,
               fr |-> NaN, sr |-> NaN, hit |-> FALSE, n |-> 0]
\* sync.Mutex: Lock returns only when no one holds the mutex.
mutexFree_NoLock(mu) == TRUE
mutexFree(mu) == mu = 0
IdleRand == [pc |-> "idle", seen |-> 0, draws |-> 0]

RingIdle ==
    /\ mr = NewMovingRateRing(1)
    /\ call = NoCall
    /\ hist = [s \in 0 .. MaxSec |-> 0]

BudIdle ==
    /\ clock = TicksPerSecond
    /\ mutex = 0
    /\ bud = NewBudget([num |-> 0, den |-> 1])
    /\ th = [t \in Threads |-> IdleThread]
    /\ failureCalled = FALSE

RndIdle ==
    /\ rng = 0
    /\ rth = [t \in Threads |-> IdleRand]

\* --------------------------------------- the slice-based estimator variants
\* +Inf, the float64 quotient of a positive count by zero seconds.
Inf == [nan |-> FALSE, num |-> 1, den |-> 0]
Zeros(n) == [i \in 1 .. n |-> 0]
Frac(t) == t - roundDown(t)

\* MovingRate (budget.go).
NewMovingRate(numBuckets) ==
    [lastUpdate |-> 0, buckets |-> <<>>, numBuckets |-> numBuckets]

\* The window shift that appends the new buckets and trims nothing.
slShiftWindow_NoTrim(m, now) ==
    IF m.lastUpdate = 0
    THEN [m EXCEPT !.buckets = <<0>>, !.lastUpdate = now]
    ELSE IF ~(roundDown(now) > m.lastUpdate)
    THEN [m EXCEPT !.lastUpdate = now]
    ELSE LET diff == (roundDown(now) - roundDown(m.lastUpdate))
                         \div TicksPerSecond
             adv == IF diff > m.numBuckets + 1 THEN m.numBuckets + 1 ELSE diff
         IN  [m EXCEPT !.buckets = m.buckets \o Zeros(adv),
                       !.lastUpdate = now]
slShiftWindow(m, now) ==
    IF m.lastUpdate = 0
    THEN [m EXCEPT !.buckets = <<0>>, !.lastUpdate = now]
    ELSE IF ~(roundDown(now) > m.lastUpdate)
    THEN [m EXCEPT !.lastUpdate = now]
    ELSE LET diff == (roundDown(now) - roundDown(m.lastUpdate))
                         \div TicksPerSecond
             adv == IF diff > m.numBuckets + 1 THEN m.numBuckets + 1 ELSE diff
             grown == m.buckets \o Zeros(adv)
             del == Len(grown) - (m.numBuckets + 1)
         IN  [m EXCEPT !.buckets = IF del > 0
                                   THEN SubSeq(grown, del + 1, Len(grown))
                                   ELSE grown,
                       !.lastUpdate = now]

slAdd(m, t, n) ==
    IF t < m.lastUpdate THEN m
    ELSE LET s == slShiftWindow(m, t)
         IN  [s EXCEPT !.buckets[Len(s.buckets)] = @ + n]

\* sumBuckets and secondsInWindow, in hits * ticks and in ticks.
slSumBuckets(m) ==
    IF Len(m.buckets) <= m.numBuckets
    THEN TicksPerSecond * SumSeq(m.buckets)
    ELSE (TicksPerSecond - Frac(m.lastUpdate)) * m.buckets[1]
             + TicksPerSecond * SumSeq(Tail(m.buckets))

slSecondsInWindow(m) ==
    IF Len(m.buckets) <= m.numBuckets
    THEN LET d == (Len(m.buckets) - 1) * TicksPerSecond + Frac(m.lastUpdate)
         IN  IF d < TicksPerSecond THEN TicksPerSecond ELSE d
    ELSE m.numBuckets * TicksPerSecond

slRate(m, t) ==
    IF t < m.lastUpdate THEN [mr |-> m, rate |-> NaN]
    ELSE LET s == slShiftWindow(m, t)
         IN  [mr |-> s, rate |-> Rat(slSumBuckets(s), slSecondsInWindow(s))]

\* movingRate (moving.go); BucketLength is one second.
newMovingRate(bucketNum) ==
    [lastUpdate |-> 0, counts |-> <<>>, BucketNum |-> bucketNum]

mvForward(m, t) ==
    IF m.lastUpdate = 0
    THEN [m EXCEPT !.counts = <<0>>, !.lastUpdate = t]
    ELSE IF ~(roundDown(t) > m.lastUpdate)
    THEN [m EXCEPT !.lastUpdate = t]
    ELSE LET diff == (roundDown(t) - roundDown(m.lastUpdate))
                         \div TicksPerSecond
             n == IF diff > m.BucketNum + 1 THEN m.BucketNum + 1 ELSE diff
             grown == m.counts \o Zeros(n)
             del == Len(grown) - (m.BucketNum + 1)
         IN  [m EXCEPT !.counts = IF del > 0
                                  THEN SubSeq(grown, del + 1, Len(grown))
                                  ELSE grown,
                       !.lastUpdate = t]

mvAdd(m, t, n) ==
    IF t < m.lastUpdate THEN m
    ELSE LET s == mvForward(m, t)
         IN  [s EXCEPT !.counts[Len(s.counts)] = @ + n]

mvCount(m) ==
    IF Len(m.counts) <= m.BucketNum
    THEN TicksPerSecond * SumSeq(m.counts)
    ELSE (TicksPerSecond - Frac(m.lastUpdate)) * m.counts[1]
             + TicksPerSecond * SumSeq(Tail(m.counts))

mvSecond(m) ==
    IF Len(m.counts) = 0 THEN 0
    ELSE IF Len(m.counts) <= m.BucketNum
    THEN (Len(m.counts) - 1) * TicksPerSecond + Frac(m.lastUpdate)
    ELSE m.BucketNum * TicksPerSecond

\* count() / second() in float64: x/0 is +Inf for x > 0 and NaN for x = 0.
mvRate(m, t) ==
    IF t < m.lastUpdate THEN [mr |-> m, rate |-> NaN]
    ELSE LET s == mvForward(m, t)
         IN  [mr |-> s,
              rate |-> IF mvSecond(s) = 0
                       THEN (IF mvCount(s) = 0 THEN NaN ELSE Inf)
                       ELSE Rat(mvCount(s), mvSecond(s))]

NoVCall == [op |-> "none", t |-> 0, hits |-> 0, ctx |-> "none",
            ring |-> NaN, slice |-> NaN, moving |-> NaN]

GapIdle ==
    /\ sl = NewMovingRate(1)
    /\ mv = newMovingRate(1)
    /\ vnow = TicksPerSecond
    /\ vcall = NoVCall
    /\ gaps = 0

BoIdle == bo = 0

IdleSession == [pc |-> "idle", rem |-> 0, blocked |-> FALSE, now |-> 0]
LiveIdle ==
    /\ wall = 0
    /\ shared = NewBudget([num |-> 0, den |-> 1])
    /\ sess = [i \in Threads |-> IdleSession]
    /\ svc = "none"
    /\ failAt = 0

DoIdle ==
    /\ entry = "none"
    /\ p = PolicyDefault
    /\ pc = "idle"
    /\ attempt = 1
    /\ cancelled = FALSE
    /\ ret = NoReturn
    /\ calls = <<>>
    /\ outcomes = <<>>
    /\ sleeps = <<>>
    /\ budget = [succ |-> 0, fail |-> 0, isOver |-> 0]
    /\ isOverLog = <<>>
    /\ sleepDur = 0
    /\ slept = 0

\* ----------------------------------------------------------------------- Do
DefaultInterval_Short == IntervalSleep(Millisecond)

\* retry.go:219-221
DefaultInterval == IntervalSleep(Second)

EffectiveInterval(policy) ==
    IF policy.Interval.kind = "nil" THEN DefaultInterval ELSE policy.Interval

ctxDone_AfterFirst == cancelled /\ attempt > 1

\* retry.go:229, case <-ctx.Done()
ctxDone == cancelled

CapReached_OffByOne(policy, a) == policy.Attempts # 0 /\ a > policy.Attempts

\* retry.go:239, p.Attempts != 0 && attempt >= p.Attempts
CapReached(policy, a) == policy.Attempts # 0 /\ a >= policy.Attempts

Contains(s, v) == \E i \in 1 .. Len(s) : s[i] = v

shouldRetry_IgnoreCodes(policy, err) == TRUE

shouldRetry_EmptyAsNil(policy, err) ==
    IF Len(policy.OnCodes.codes) # 0
    THEN IF err.hasCode THEN Contains(policy.OnCodes.codes, err.code) ELSE FALSE
    ELSE TRUE

shouldRetry(policy, err) ==
    IF ~policy.OnCodes.isNil
    THEN IF err.hasCode THEN Contains(policy.OnCodes.codes, err.code) ELSE FALSE
    ELSE TRUE

\* p.Budget.IsOver: noOpBudget answers false, the caller's Budget answers
\* `over`.
BudgetIsOver(policy, over) == IF policy.Budget = "nil" THEN FALSE ELSE over

BudgetSuccess_Dropped(policy, b) == b

\* p.Budget.Success(now, 1): noOpBudget ignores it.
BudgetSuccess(policy, b) ==
    IF policy.Budget = "nil" THEN b ELSE [b EXCEPT !.succ = @ + 1]

BudgetFailure_Dropped(policy, b) == b

\* p.Budget.Failure(now, 1): noOpBudget ignores it.
BudgetFailure(policy, b) ==
    IF policy.Budget = "nil" THEN b ELSE [b EXCEPT !.fail = @ + 1]

SleepFor_ZeroBased(policy, a, r) ==
    IntervalNext(EffectiveInterval(policy), a - 1, r)

\* retry.go:233 and 246, p.Interval.Next(attempt)
SleepFor(policy, a, r) == IntervalNext(EffectiveInterval(policy), a, r)

ReturnErr_Swallow(err) == NilErr

\* retry.go:241 and 249, return err
ReturnErr(err) == err

StartSleep(kind, r) ==
    /\ attempt < MaxAttempt
    /\ pc' = "sleeping"
    /\ sleepDur' = SleepFor(p, attempt, r)
    /\ slept' = 0
    /\ sleeps' = Append(sleeps, [kind |-> kind, arg |-> attempt,
                                 dur |-> SleepFor(p, attempt, r), r |-> r,
                                 inv |-> Len(calls)])

Return(v) ==
    /\ pc' = "done"
    /\ ret' = v

\* One pass through the head of the for loop (retry.go:227-238): the select
\* on ctx.Done(), the Budget.IsOver check, and the call of the operation.
LoopHead ==
    /\ pc = "loop"
    /\ IF ctxDone
       THEN /\ Return(CtxErr)
            /\ UNCHANGED <<calls, sleeps, budget, isOverLog, sleepDur, slept>>
       ELSE \E over \in (IF p.Budget = "nil" THEN {FALSE} ELSE BOOLEAN) :
              /\ budget' = IF p.Budget = "nil" THEN budget
                           ELSE [budget EXCEPT !.isOver = @ + 1]
              /\ isOverLog' = IF p.Budget = "nil" THEN isOverLog
                              ELSE Append(isOverLog, over)
              /\ IF BudgetIsOver(p, over)
                 THEN /\ \E r \in RandDraws : StartSleep("budget", r)
                      /\ UNCHANGED <<ret, calls>>
                 ELSE /\ pc' = "inop"
                      /\ calls' = Append(calls, attempt)
                      /\ UNCHANGED <<ret, sleeps, sleepDur, slept>>
    /\ UNCHANGED <<entry, p, attempt, cancelled, outcomes>>
    /\ UNCHANGED <<ringVars, budVars, rndVars, gapVars, boVars, liveVars>>

\* The operation returns err (retry.go:238-250).
OpReturn ==
    /\ pc = "inop"
    /\ \E err \in OpOutcomes(Len(calls)) :
         /\ outcomes' = Append(outcomes, err)
         /\ IF err.kind = "nil" \/ CapReached(p, attempt)
            THEN /\ budget' = BudgetSuccess(p, budget)
                 /\ Return(ReturnErr(err))
                 /\ UNCHANGED <<sleeps, sleepDur, slept>>
            ELSE /\ budget' = BudgetFailure(p, budget)
                 /\ IF shouldRetry(p, err)
                    THEN /\ \E r \in RandDraws : StartSleep("retry", r)
                         /\ UNCHANGED ret
                    ELSE /\ Return(ReturnErr(err))
                         /\ UNCHANGED <<sleeps, sleepDur, slept>>
    /\ UNCHANGED <<entry, p, attempt, cancelled, calls, isOverLog>>
    /\ UNCHANGED <<ringVars, budVars, rndVars, gapVars, boVars, liveVars>>

\* Time passes while Do is inside time.Sleep: half of the sleep, or all of it.
Tick ==
    /\ pc = "sleeping"
    /\ slept < sleepDur
    /\ \E t \in {sleepDur \div 2, sleepDur} :
         /\ t > slept
         /\ slept' = t
    /\ UNCHANGED <<entry, p, pc, attempt, cancelled, ret, calls, outcomes,
                   sleeps, budget, isOverLog, sleepDur>>
    /\ UNCHANGED <<ringVars, budVars, rndVars, gapVars, boVars, liveVars>>

\* time.Sleep returns; attempt++ (retry.go:234 and 247) and the loop repeats.
Wake ==
    /\ pc = "sleeping"
    /\ slept = sleepDur
    /\ attempt' = attempt + 1
    /\ pc' = "loop"
    /\ UNCHANGED <<entry, p, cancelled, ret, calls, outcomes, sleeps, budget,
                   isOverLog, sleepDur, slept>>
    /\ UNCHANGED <<ringVars, budVars, rndVars, gapVars, boVars, liveVars>>

\* The caller cancels the context while Do runs.
Cancel ==
    /\ pc # "done"
    /\ ~cancelled
    /\ cancelled' = TRUE
    /\ UNCHANGED <<entry, p, pc, attempt, ret, calls, outcomes, sleeps,
                   budget, isOverLog, sleepDur, slept>>
    /\ UNCHANGED <<ringVars, budVars, rndVars, gapVars, boVars, liveVars>>

\* retry.go:217-218, and the caller's context, cancelled already or not.
DoInit ==
    /\ pc = "loop"
    /\ attempt = 1
    /\ cancelled \in BOOLEAN
    /\ ret = NoReturn
    /\ calls = <<>>
    /\ outcomes = <<>>
    /\ sleeps = <<>>
    /\ budget = [succ |-> 0, fail |-> 0, isOver |-> 0]
    /\ isOverLog = <<>>
    /\ sleepDur = 0
    /\ slept = 0
    /\ RingIdle
    /\ BudIdle
    /\ RndIdle
    /\ GapIdle
    /\ BoIdle
    /\ LiveIdle

\* retry.go:197-199, Until calls Do with PolicyDefault.
Until ==
    /\ entry = "Until"
    /\ p = PolicyDefault
    /\ DoInit

Do ==
    /\ entry = "Do"
    /\ p \in Policies
    /\ DoInit

Init == Do \/ Until

Next == LoopHead \/ OpReturn \/ Tick \/ Wake \/ Cancel

Spec == Init /\ [][Next]_vars

\* ------------------------------------------- one estimator, called in turn
SecondOf(t) == t \div TicksPerSecond

\* mr.Add(t, hits), at any instant, before the last update or not.
AddCall ==
    /\ \E t \in Times, hits \in 0 .. MaxHits :
         /\ RingAdd(mr, t, hits).buckets[RingAdd(mr, t, hits).pos] <= MaxBucket
         /\ mr' = RingAdd(mr, t, hits)
         /\ call' = [op |-> "Add", t |-> t, hits |-> hits, rate |-> NaN]
         /\ hist' = IF t < mr.last THEN hist
                    ELSE [hist EXCEPT ![SecondOf(t)] = @ + hits]
    /\ UNCHANGED <<doVars, budVars, rndVars, gapVars, boVars, liveVars>>

\* mr.Rate(t), at any instant.
RateCall ==
    /\ \E t \in Times :
         /\ mr' = RingRate(mr, t).mr
         /\ call' = [op |-> "Rate", t |-> t, hits |-> 0,
                     rate |-> RingRate(mr, t).rate]
    /\ UNCHANGED hist
    /\ UNCHANGED <<doVars, budVars, rndVars, gapVars, boVars, liveVars>>

InitRing ==
    /\ \E w \in 1 .. MaxWindow : mr = NewMovingRateRing(w)
    /\ call = NoCall
    /\ hist = [s \in 0 .. MaxSec |-> 0]
    /\ DoIdle
    /\ BudIdle
    /\ RndIdle
    /\ GapIdle
    /\ BoIdle
    /\ LiveIdle

NextRing == AddCall \/ RateCall

SpecRing == InitRing /\ [][NextRing]_vars

\* ------------------------------------------ sessions sharing one budget
\* A session evaluates time.Now() and calls a method of the shared budget
\* (retry.go:232, 240, 244); the lock is taken inside the method.
Methods == {"IsOver", "Success", "Failure"}

BudgetCall(t) ==
    /\ th[t].pc = "idle"
    /\ th[t].n < MaxCalls
    /\ \E m \in Methods :
         /\ th' = [th EXCEPT ![t] = [IdleThread EXCEPT !.pc = "called",
                                                       !.m = m,
                                                       !.now = clock,
                                                       !.n = th[t].n + 1]]
         /\ failureCalled' = (failureCalled \/ m = "Failure")
    /\ UNCHANGED <<clock, mutex, bud>>
    /\ UNCHANGED <<doVars, ringVars, rndVars, gapVars, boVars, liveVars>>

BudgetLock(t) ==
    /\ th[t].pc = "called"
    /\ mutexFree(mutex)
    /\ mutex' = t
    /\ th' = [th EXCEPT ![t].pc = "locked"]
    /\ UNCHANGED <<clock, bud, failureCalled>>
    /\ UNCHANGED <<doVars, ringVars, rndVars, gapVars, boVars, liveVars>>

BudgetBody(t) ==
    /\ th[t].pc = "locked"
    /\ \/ /\ th[t].m = "Failure"
          /\ bud' = budgetFailure(bud, th[t].now, 1)
          /\ th' = [th EXCEPT ![t].pc = "ran",
                              ![t].hit = (bud'.failure # bud.failure)]
       \/ /\ th[t].m = "Success"
          /\ bud' = budgetSuccess(bud, th[t].now, 1)
          /\ th' = [th EXCEPT ![t].pc = "ran",
                              ![t].hit = (bud'.success # bud.success)]
       \/ /\ th[t].m = "IsOver"
          /\ bud' = budgetIsOver(bud, th[t].now).bud
          /\ th' = [th EXCEPT ![t].pc = "ran",
                              ![t].fr = budgetIsOver(bud, th[t].now).fr,
                              ![t].sr = budgetIsOver(bud, th[t].now).sr,
                              ![t].over = budgetIsOver(bud, th[t].now).over]
    /\ UNCHANGED <<clock, mutex, failureCalled>>
    /\ UNCHANGED <<doVars, ringVars, rndVars, gapVars, boVars, liveVars>>

\* The deferred Unlock runs as the method returns.
BudgetReturn(t) ==
    /\ th[t].pc = "ran"
    /\ mutex' = 0
    /\ th' = [th EXCEPT ![t] = [IdleThread EXCEPT !.n = th[t].n]]
    /\ UNCHANGED <<clock, bud, failureCalled>>
    /\ UNCHANGED <<doVars, ringVars, rndVars, gapVars, boVars, liveVars>>

ClockTick ==
    /\ clock < MaxClock
    /\ clock' = clock + 1
    /\ UNCHANGED <<mutex, bud, th, failureCalled>>
    /\ UNCHANGED <<doVars, ringVars, rndVars, gapVars, boVars, liveVars>>

InitBudget ==
    /\ clock = TicksPerSecond
    /\ mutex = 0
    /\ \E r \in Ratios : bud = NewBudget(r)
    /\ th = [t \in Threads |-> IdleThread]
    /\ failureCalled = FALSE
    /\ DoIdle
    /\ RingIdle
    /\ RndIdle
    /\ GapIdle
    /\ BoIdle
    /\ LiveIdle

NextBudget ==
    \/ \E t \in Threads : BudgetCall(t)
    \/ \E t \in Threads : BudgetLock(t)
    \/ \E t \in Threads : BudgetBody(t)
    \/ \E t \in Threads : BudgetReturn(t)
    \/ ClockTick

SpecBudget == InitBudget /\ [][NextBudget]_vars

\* ------------------------------- sessions sharing PolicyDefault's Rand
\* PolicyDefault.Interval.Rand is one *rand.Rand (retry.go:175), copied by
\* pointer into every session's Policy and into PolicyOnRetryable
\* (retry.go:189).  Float64 reads the source's state and writes the advanced
\* state back, with no lock (retry.go:71).
NextSource(state) == state + 1

RandRead(t) ==
    /\ rth[t].pc = "idle"
    /\ rth[t].draws < MaxDraws
    /\ rth' = [rth EXCEPT ![t].pc = "read", ![t].seen = rng]
    /\ UNCHANGED rng
    /\ UNCHANGED <<doVars, ringVars, budVars, gapVars, boVars, liveVars>>

RandWrite(t) ==
    /\ rth[t].pc = "read"
    /\ rng' = NextSource(rth[t].seen)
    /\ rth' = [rth EXCEPT ![t].pc = "idle", ![t].seen = 0,
                          ![t].draws = @ + 1]
    /\ UNCHANGED <<doVars, ringVars, budVars, gapVars, boVars, liveVars>>

InitRand ==
    /\ rng = 0
    /\ rth = [t \in Threads |-> IdleRand]
    /\ DoIdle
    /\ RingIdle
    /\ BudIdle
    /\ GapIdle
    /\ BoIdle
    /\ LiveIdle

NextRand ==
    \/ \E t \in Threads : RandRead(t)
    \/ \E t \in Threads : RandWrite(t)

SpecRand == InitRand /\ [][NextRand]_vars

\* ------------------- the three estimator variants under one call sequence
\* The ring, the slice-based MovingRate and movingRate have the same window
\* size and receive the same Add and Rate calls, at times that never go back.
\* A quiet period is longer than numBuckets+1 seconds.
QuietTicks == (mr.numBuckets + 1) * TicksPerSecond + 1
Quiet == sl.lastUpdate # 0 /\ vnow - sl.lastUpdate >= QuietTicks

GapAdvance ==
    /\ \E d \in {1, TicksPerSecond, QuietTicks} :
         /\ vnow + d <= MaxNow
         /\ vnow' = vnow + d
    /\ UNCHANGED <<mr, sl, mv, vcall, gaps>>
    /\ UNCHANGED <<call, hist>>
    /\ UNCHANGED <<doVars, budVars, rndVars, boVars, liveVars>>

GapAdd ==
    /\ \E h \in 1 .. MaxHits :
         /\ RingAdd(mr, vnow, h).buckets[RingAdd(mr, vnow, h).pos] <= MaxBucket
         /\ mr' = RingAdd(mr, vnow, h)
         /\ sl' = slAdd(sl, vnow, h)
         /\ mv' = mvAdd(mv, vnow, h)
         /\ vcall' = [NoVCall EXCEPT
                         !.op = "Add", !.t = vnow, !.hits = h,
                         !.ctx = IF sl.lastUpdate = 0 THEN "first"
                                 ELSE IF Quiet THEN "gap" ELSE "none"]
    /\ gaps' = IF Quiet THEN gaps + 1 ELSE gaps
    /\ UNCHANGED vnow
    /\ UNCHANGED <<call, hist>>
    /\ UNCHANGED <<doVars, budVars, rndVars, boVars, liveVars>>

GapRate ==
    /\ mr' = RingRate(mr, vnow).mr
    /\ sl' = slRate(sl, vnow).mr
    /\ mv' = mvRate(mv, vnow).mr
    /\ LET follows == vcall.op = "Add" /\ vcall.t = vnow
       IN  vcall' = [op |-> "Rate", t |-> vnow,
                     hits |-> IF follows THEN vcall.hits ELSE 0,
                     ctx |-> IF follows /\ vcall.ctx = "first" THEN "firstAdd"
                             ELSE IF follows /\ vcall.ctx = "gap" THEN "gapAdd"
                             ELSE IF Quiet THEN "gap" ELSE "none",
                     ring |-> RingRate(mr, vnow).rate,
                     slice |-> slRate(sl, vnow).rate,
                     moving |-> mvRate(mv, vnow).rate]
    /\ gaps' = IF Quiet THEN gaps + 1 ELSE gaps
    /\ UNCHANGED vnow
    /\ UNCHANGED <<call, hist>>
    /\ UNCHANGED <<doVars, budVars, rndVars, boVars, liveVars>>

InitGap ==
    /\ \E w \in 1 .. MaxWindow :
         /\ mr = NewMovingRateRing(w)
         /\ sl = NewMovingRate(w)
         /\ mv = newMovingRate(w)
    /\ vnow = TicksPerSecond
    /\ vcall = NoVCall
    /\ gaps = 0
    /\ call = NoCall
    /\ hist = [s \in 0 .. MaxSec |-> 0]
    /\ DoIdle
    /\ BudIdle
    /\ RndIdle
    /\ BoIdle
    /\ LiveIdle

NextGap == GapAdvance \/ GapAdd \/ GapRate

SpecGap == InitGap /\ [][NextGap]_vars

\* ------------------------------------------ IntervalBackOff.Next by itself
\* time.Duration(x) of a float64 x: the value when it fits the duration
\* type; otherwise the result is implementation-dependent, ovf being the
\* value the build produces (the smallest duration on amd64, the largest on
\* arm64).
MinDuration == 0 - MaxDuration - 1
OverflowOutcomes == {MinDuration, MaxDuration}
ToDuration(x, ovf) == IF x > MaxDuration \/ x < MinDuration THEN ovf ELSE x

\* Next with the exponent one less than the attempt number.
BackOffNext_ZeroBasedExponent(b, attempts, r, ovf) ==
    LET d0 == ToDuration(BackOffBase(b, attempts - 1), ovf)
        d == IF b.hasRand THEN ToDuration(BackOffJitter(b, d0, r), ovf) ELSE d0
    IN  IF d > b.Max THEN b.Max
        ELSE IF d < b.Min THEN b.Min
        ELSE d
\* Next without the lower clamp.
BackOffNext_NoFloor(b, attempts, r, ovf) ==
    LET d0 == ToDuration(BackOffBase(b, attempts), ovf)
        d == IF b.hasRand THEN ToDuration(BackOffJitter(b, d0, r), ovf) ELSE d0
    IN  IF d > b.Max THEN b.Max ELSE d
\* retry.go:66-80, both float64-to-Duration conversions included.
BackOffNext(b, attempts, r, ovf) ==
    LET d0 == ToDuration(BackOffBase(b, attempts), ovf)
        d == IF b.hasRand THEN ToDuration(BackOffJitter(b, d0, r), ovf) ELSE d0
    IN  IF d > b.Max THEN b.Max
        ELSE IF d < b.Min THEN b.Min
        ELSE d

\* The interval UntilAttempts builds from its sleep argument
\* (retry.go:205-211).
UntilAttemptsInterval(sleep) ==
    IntervalBackOff(sleep, sleep * 10, 1, 2, 1, 5, TRUE)

BoSleeps == {1, 4, 10}
BoFactors == {<<1, 2>>, <<1, 1>>, <<3, 2>>, <<2, 1>>, <<3, 1>>}
BoJitters == {<<0, 1>>, <<1, 5>>, <<1, 2>>, <<1, 1>>}
BoIntervals ==
    {IntervalBackOff(min, max, f[1], f[2], j[1], j[2], hasRand) :
        min \in {1, 4, 10}, max \in {2, 8, 40}, f \in BoFactors,
        j \in BoJitters, hasRand \in BOOLEAN}
    \cup {UntilAttemptsInterval(sleep) : sleep \in BoSleeps}

BoEvaluate ==
    /\ bo.phase = "new"
    /\ \E a \in 1 .. MaxBoAttempt, r \in RandDraws, ovf \in OverflowOutcomes :
         bo' = [bo EXCEPT !.phase = "done", !.a = a, !.r = r, !.ovf = ovf,
                          !.next = BackOffNext(bo.b, a, r, ovf),
                          !.succ = BackOffNext(bo.b, a + 1, r, ovf)]
    /\ UNCHANGED <<doVars, ringVars, budVars, rndVars, gapVars, liveVars>>

InitBo ==
    /\ \E b \in BoIntervals :
         bo = [phase |-> "new", b |-> b, a |-> 0, r |-> 0, ovf |-> 0,
               next |-> 0, succ |-> 0]
    /\ DoIdle
    /\ RingIdle
    /\ BudIdle
    /\ RndIdle
    /\ GapIdle
    /\ LiveIdle

NextBo == BoEvaluate

SpecBo == InitBo /\ [][NextBo]_vars

\* ------------------------------- sessions running for ever on one budget
\* Do sessions with Policy{Budget: shared} (nil Interval, nil OnCodes,
\* Attempts 0) call an operation that fails while the resource is down and
\* succeeds once it is up.  Every call of a Budget method takes two steps:
\* the session reads the clock for the argument (time.Now(), retry.go:232,
\* 240, 244), and later the body of the method runs under the mutex with
\* the time that was read, so that a body can meet estimators that another
\* session has moved past that time.  Time has no end here: the estimators
\* depend only on the whole seconds between a call and their last update,
\* capped at numBuckets+1 (part_003:45-47), and on the offset of the call
\* inside its second, so at every new second all times are moved one second
\* back and `wall` stays inside one second.

\* The most ticks that pass between a session's reading of the clock and
\* the body of the method it calls with it.
MaxLag == 1

\* The whole seconds such a reading can lie behind the clock.
LiveLagSeconds == MaxLag \div TicksPerSecond + 1

LiveBase == (BudgetWindow + 3 + LiveLagSeconds) * TicksPerSecond

\* An estimator one second later, seen from the new second.
Rebase(m) ==
    IF m.last = 0 THEN m
    ELSE [m EXCEPT !.last =
              IF @ - TicksPerSecond < TicksPerSecond + Frac(@)
              THEN TicksPerSecond + Frac(@)
              ELSE @ - TicksPerSecond]

\* A whole second one second later, seen from the new second.
RebaseTime(t) ==
    IF t = 0 THEN 0
    ELSE IF t - TicksPerSecond < TicksPerSecond THEN TicksPerSecond
    ELSE t - TicksPerSecond

\* The sleep of a session: IntervalSleep(time.Second).Next(attempt)
\* (retry.go:219-221), in ticks.
LiveSleep == IntervalNext(DefaultInterval, 1, 0) \div (Second \div TicksPerSecond)

\* The ratio of the shared budget.
LiveRatio == [num |-> 1, den |-> 2]

\* The session holds a time it read and has not yet handed to a body.
Pending(i) == sess[i].pc \in {"isover", "success", "failure"}

\* The head of the loop (retry.go:227-232), the first time or after the end
\* of a sleep: the context is never cancelled, and the argument of IsOver
\* is read off the clock.
LiveLoop(i) ==
    /\ \/ sess[i].pc = "loop"
       \/ sess[i].pc = "sleeping" /\ sess[i].rem = 0
    /\ sess' = [sess EXCEPT ![i].pc = "isover", ![i].now = wall]
    /\ UNCHANGED <<wall, shared, svc, failAt>>
    /\ UNCHANGED <<doVars, ringVars, budVars, rndVars, gapVars, boVars>>

\* The body of IsOver runs with the time read before (part_004:58-72), and
\* the session sleeps or invokes the operation (retry.go:232-238).
LiveIsOver(i) ==
    /\ sess[i].pc = "isover"
    /\ \E a \in {budgetIsOver(shared, sess[i].now)} :
          /\ shared' = a.bud
          /\ sess' = [sess EXCEPT ![i] =
                IF a.over
                THEN [@ EXCEPT !.pc = "sleeping", !.rem = LiveSleep,
                               !.blocked = TRUE, !.now = 0]
                ELSE [@ EXCEPT !.pc = "inop", !.now = 0]]
    /\ UNCHANGED <<wall, svc, failAt>>
    /\ UNCHANGED <<doVars, ringVars, budVars, rndVars, gapVars, boVars>>

\* The operation returns (retry.go:238-244), nil when the resource is up
\* and an error when it is down, and the argument of Success or Failure is
\* read off the clock.
LiveOp(i) ==
    /\ sess[i].pc = "inop"
    /\ sess' = [sess EXCEPT ![i].pc = IF svc = "up" THEN "success" ELSE "failure",
                            ![i].now = wall,
                            ![i].blocked = FALSE]
    /\ UNCHANGED <<wall, shared, svc, failAt>>
    /\ UNCHANGED <<doVars, ringVars, budVars, rndVars, gapVars, boVars>>

\* The body of Success or Failure runs with the time read before
\* (part_004:42-54); after Success the session returns, after Failure it
\* sleeps and retries (retry.go:240-247).
LiveRecord(i) ==
    /\ sess[i].pc \in {"success", "failure"}
    /\ IF sess[i].pc = "success"
       THEN /\ shared' = budgetSuccess(shared, sess[i].now, 1)
            /\ sess' = [sess EXCEPT ![i].pc = "done", ![i].now = 0]
            /\ UNCHANGED failAt
       ELSE /\ shared' = budgetFailure(shared, sess[i].now, 1)
            /\ sess' = [sess EXCEPT ![i].pc = "sleeping",
                                    ![i].rem = LiveSleep,
                                    ![i].now = 0]
            /\ failAt' = IF sess[i].now < shared.failure.last THEN failAt
                          ELSE roundDown(sess[i].now)
    /\ UNCHANGED <<wall, svc>>
    /\ UNCHANGED <<doVars, ringVars, budVars, rndVars, gapVars, boVars>>

\* One tick of time passes; no session holds a time for more than MaxLag
\* ticks.
LiveTick ==
    /\ \A i \in Threads : Pending(i) => wall - sess[i].now < MaxLag
    /\ IF wall + 1 < LiveBase + TicksPerSecond
       THEN /\ wall' = wall + 1
            /\ UNCHANGED <<shared, failAt>>
            /\ sess' = [i \in Threads |->
                           [sess[i] EXCEPT !.rem = IF @ > 0 THEN @ - 1 ELSE 0]]
       ELSE /\ wall' = LiveBase
            /\ shared' = [shared EXCEPT !.failure = Rebase(@),
                                        !.success = Rebase(@)]
            /\ sess' = [i \in Threads |->
                           [sess[i] EXCEPT
                              !.rem = IF @ > 0 THEN @ - 1 ELSE 0,
                              !.now = IF Pending(i) THEN @ - TicksPerSecond
                                      ELSE @]]
            /\ failAt' = RebaseTime(failAt)
    /\ UNCHANGED svc
    /\ UNCHANGED <<doVars, ringVars, budVars, rndVars, gapVars, boVars>>

\* The resource recovers, for good.
LiveRecover ==
    /\ svc = "down"
    /\ svc' = "up"
    /\ UNCHANGED <<wall, shared, sess, failAt>>
    /\ UNCHANGED <<doVars, ringVars, budVars, rndVars, gapVars, boVars>>

InitLive ==
    /\ wall = LiveBase
    /\ shared = NewBudget(LiveRatio)
    /\ sess = [i \in Threads |-> [IdleSession EXCEPT !.pc = "loop"]]
    /\ svc = "down"
    /\ failAt = 0
    /\ DoIdle
    /\ RingIdle
    /\ BudIdle
    /\ RndIdle
    /\ GapIdle
    /\ BoIdle

NextLive ==
    \/ \E i \in Threads : LiveLoop(i)
    \/ \E i \in Threads : LiveIsOver(i)
    \/ \E i \in Threads : LiveOp(i)
    \/ \E i \in Threads : LiveRecord(i)
    \/ LiveTick
    \/ LiveRecover

\* Time advances, every invocation returns, every sleep ends and every
\* session that can take its next step takes it; nothing makes the resource
\* recover.
FairLive ==
    /\ WF_vars(LiveTick)
    /\ \A i \in Threads :
          /\ WF_vars(LiveLoop(i))
          /\ WF_vars(LiveIsOver(i))
          /\ WF_vars(LiveOp(i))
          /\ WF_vars(LiveRecord(i))

SpecLive == InitLive /\ [][NextLive]_vars /\ FairLive

\* ------------------------------------------- one session on its own budget
\* A single Do session with Policy{Budget: NewBudget(ratio)}, for every
\* ratio: the steps are those of the sessions above, the second session is
\* never started.
InitSolo ==
    /\ wall = LiveBase
    /\ \E r \in Ratios : shared = NewBudget(r)
    /\ sess = [i \in Threads |->
                  IF i = 1 THEN [IdleSession EXCEPT !.pc = "loop"]
                  ELSE IdleSession]
    /\ svc = "down"
    /\ failAt = 0
    /\ DoIdle
    /\ RingIdle
    /\ BudIdle
    /\ RndIdle
    /\ GapIdle
    /\ BoIdle

SpecSolo == InitSolo /\ [][NextLive]_vars

\* ------------------------------------------------------------------ claims
NumKind(s, k) == Cardinality({i \in 1 .. Len(s) : s[i].kind = k})

\* The interval Do sleeps by, read off the policy.
PolicyInterval == IF p.Interval.kind = "nil" THEN IntervalSleep(Second) ELSE p.Interval

\* The session runs without a Budget and without an allowlist, under an
\* attempt cap, the context is not cancelled and every invocation so far
\* failed.
AlwaysFailing ==
    /\ p.Budget = "nil"
    /\ p.OnCodes.isNil
    /\ p.Attempts >= 1
    /\ ~cancelled
    /\ \A i \in 1 .. Len(outcomes) : outcomes[i].kind = "op"

\* C1: with no Budget, no allowlist, Attempts = N >= 1 and an operation that
\* fails on every invocation, Do invokes the operation exactly N times, with
\* attempt numbers 1..N in order, and returns the error of the N-th invocation.
C1_ExactlyNAttempts ==
    AlwaysFailing =>
        /\ Len(calls) <= p.Attempts
        /\ \A i \in 1 .. Len(calls) : calls[i] = i
        /\ pc # "done" => Len(outcomes) < p.Attempts
        /\ pc = "done" =>
              /\ Len(calls) = p.Attempts
              /\ Len(outcomes) = p.Attempts
              /\ ret = outcomes[p.Attempts]
              /\ ret.kind = "op"
              /\ ret.inv = p.Attempts

C1_Witness ==
    /\ AlwaysFailing
    /\ pc = "done"
    /\ p.Attempts = 3
    /\ calls = <<1, 2, 3>>
    /\ ret.inv = 3

\* C2: at the start of every loop iteration, the first included, a cancelled
\* context makes Do return the cancellation error without invoking the
\* operation or touching the Budget in that iteration; once Do has returned,
\* the operation is never invoked and the Budget never touched again.
C2_CancelledAtLoopHead ==
    [][ /\ (pc = "loop" /\ cancelled) =>
              /\ pc' = "done"
              /\ ret' = CtxErr
              /\ calls' = calls
              /\ budget' = budget
              /\ sleeps' = sleeps
        /\ pc = "done" =>
              /\ pc' = "done"
              /\ ret' = ret
              /\ calls' = calls
              /\ budget' = budget ]_vars

C2_Witness ==
    /\ pc = "done"
    /\ ret = CtxErr
    /\ calls = <<>>
    /\ p.Budget = "custom"
    /\ budget = [succ |-> 0, fail |-> 0, isOver |-> 0]

\* C3: if the context is cancelled while Do is sleeping (back-off sleep or
\* over-budget sleep), Do does not wait for the remainder of that sleep: no
\* further part of the sleep elapses before Do returns the cancellation error.
C3_SleepInterruptible ==
    [][ (pc = "sleeping" /\ cancelled /\ slept < sleepDur) =>
            /\ slept' = slept
            /\ pc' \in {"sleeping", "done"}
            /\ pc' = "done" => ret' = CtxErr ]_vars

\* C4: every invocation that returns an error records exactly one failure hit
\* and no success hit in the Budget, the invocation at which the attempt cap
\* is reached included.
C4_FailureRecorded ==
    p.Budget = "custom" =>
        /\ budget.fail = NumKind(outcomes, "op")
        /\ budget.succ = NumKind(outcomes, "nil")

\* C5: when an invocation returns no error, Do records exactly one success hit
\* in the Budget and returns nil at once: no later invocation, no sleep after
\* it, whatever attempts remain.
C5_SuccessReturnsAtOnce ==
    \A i \in 1 .. Len(outcomes) :
        outcomes[i].kind = "nil" =>
            /\ i = Len(outcomes)
            /\ Len(calls) = i
            /\ pc = "done"
            /\ ret = NilErr
            /\ p.Budget = "custom" => (budget.succ = 1 /\ budget.fail = i - 1)
            /\ \A j \in 1 .. Len(sleeps) : sleeps[j].inv < i

C5_Witness ==
    /\ pc = "done"
    /\ ret = NilErr
    /\ Len(outcomes) = 2
    /\ p.Budget = "custom"
    /\ p.Attempts = 0
    /\ budget.succ = 1

\* C6: in an iteration in which Budget.IsOver reports true (the first one of a
\* session included) the operation is not invoked, neither Success nor Failure
\* is called, exactly one sleep of Interval.Next(attempt) is performed, in
\* full, and the attempt counter increases by exactly one.
C6_BudgetBlockedIteration ==
    [][ /\ (Len(isOverLog') = Len(isOverLog) + 1 /\ Last(isOverLog')) =>
              /\ calls' = calls
              /\ outcomes' = outcomes
              /\ budget'.succ = budget.succ
              /\ budget'.fail = budget.fail
              /\ pc' = "sleeping"
              /\ Len(sleeps') = Len(sleeps) + 1
              /\ Last(sleeps').kind = "budget"
              /\ Last(sleeps').arg = attempt
              /\ sleepDur' = IntervalNext(PolicyInterval, attempt, Last(sleeps').r)
              /\ slept' = 0
              /\ attempt' = attempt
        /\ (pc = "sleeping" /\ Last(sleeps).kind = "budget") =>
              /\ calls' = calls
              /\ outcomes' = outcomes
              /\ budget' = budget
              /\ sleeps' = sleeps
              /\ sleepDur' = sleepDur
              /\ pc' # "sleeping" =>
                    /\ slept = sleepDur
                    /\ pc' = "loop"
                    /\ attempt' = attempt + 1
              /\ pc' = "sleeping" => attempt' = attempt ]_vars

C6_Witness ==
    /\ pc = "loop"
    /\ calls = <<>>
    /\ Len(sleeps) = 1
    /\ sleeps[1].kind = "budget"
    /\ sleeps[1].arg = 1
    /\ attempt = 2
    /\ p.Interval.kind = "backoff"
    /\ budget.succ = 0
    /\ budget.fail = 0

\* An error is eligible for a retry: no allowlist, or a code that the
\* allowlist holds.
Eligible(err) ==
    \/ p.OnCodes.isNil
    \/ /\ err.hasCode
       /\ err.code \in {p.OnCodes.codes[i] : i \in 1 .. Len(p.OnCodes.codes)}

\* C7: after a failed invocation below the attempt cap Do retries iff the
\* error is eligible (no allowlist: every error; with an allowlist: only an
\* error with a code that is in it); an ineligible error is returned
\* immediately, with no sleep and no further invocation.
C7_RetryIffEligible ==
    [][ (/\ Len(outcomes') = Len(outcomes) + 1
         /\ Last(outcomes').kind = "op"
         /\ ~(p.Attempts # 0 /\ attempt >= p.Attempts)) =>
            IF Eligible(Last(outcomes'))
            THEN /\ pc' = "sleeping"
                 /\ ret' = NoReturn
                 /\ Len(sleeps') = Len(sleeps) + 1
                 /\ Last(sleeps').kind = "retry"
            ELSE /\ pc' = "done"
                 /\ ret' = Last(outcomes')
                 /\ sleeps' = sleeps
                 /\ calls' = calls ]_vars

C7_Witness ==
    /\ pc = "done"
    /\ p.OnCodes = CodeList(<<500>>)
    /\ p.Attempts = 0
    /\ Len(outcomes) = 2
    /\ outcomes[1].hasCode /\ outcomes[1].code = 500
    /\ outcomes[2].hasCode /\ outcomes[2].code = 404
    /\ ret = outcomes[2]
    /\ Len(sleeps) = 1
    /\ sleeps[1].kind = "retry"

\* C8: the value of a terminated session is nil (the most recent invocation
\* succeeded), the context's cancellation error, or the error of the most
\* recent invocation: never the error of an earlier attempt, never nil after a
\* failed last attempt.
C8_ReturnsLastOutcome ==
    /\ pc # "done" => ret = NoReturn
    /\ pc = "done" =>
          \/ ret = CtxErr /\ cancelled
          \/ /\ ret = NilErr
             /\ outcomes # <<>>
             /\ Last(outcomes) = NilErr
          \/ /\ ret.kind = "op"
             /\ outcomes # <<>>
             /\ ret = Last(outcomes)
             /\ ret.inv = Len(calls)

C8_Witness ==
    /\ pc = "done"
    /\ ret.kind = "op"
    /\ ret.inv = 3
    /\ Len(outcomes) = 3

\* C9: with a nil Interval every sleep lasts exactly one second, whatever the
\* attempt number; with a nil Budget no iteration is budget-blocked and no hit
\* is recorded.
C9_NilDefaults ==
    /\ p.Interval.kind = "nil" =>
          /\ \A j \in 1 .. Len(sleeps) : sleeps[j].dur = Second
          /\ pc = "sleeping" => sleepDur = Second
    /\ p.Budget = "nil" =>
          /\ \A j \in 1 .. Len(sleeps) : sleeps[j].kind = "retry"
          /\ budget = [succ |-> 0, fail |-> 0, isOver |-> 0]
          /\ Len(sleeps) = NumKind(outcomes, "op") - (IF pc = "done" /\ ret.kind = "op" THEN 1 ELSE 0)

C9_Witness ==
    /\ p.Interval.kind = "nil"
    /\ p.Budget = "nil"
    /\ Len(sleeps) = 3
    /\ sleeps[1].arg = 1
    /\ sleeps[3].arg = 3
    /\ pc = "loop"

\* C10: Until never returns an error of the operation: it returns nil, after
\* the first invocation that succeeds, or the cancellation error, and every
\* failed invocation is followed by a retry sleep.
C10_UntilNeverReturnsOpError ==
    entry = "Until" =>
        /\ ret.kind \in {"none", "nil", "ctx"}
        /\ ret = NilErr =>
              /\ Last(outcomes) = NilErr
              /\ NumKind(outcomes, "nil") = 1
        /\ ret = CtxErr => cancelled
        /\ Len(sleeps) = NumKind(outcomes, "op")
        /\ \A j \in 1 .. Len(sleeps) : sleeps[j].kind = "retry" /\ sleeps[j].inv = j

C10_Witness ==
    /\ entry = "Until"
    /\ pc = "done"
    /\ ret = NilErr
    /\ Len(outcomes) = 3
    /\ ~cancelled

\* ------------------------------------------------- claims on the estimator
\* C17: MovingRateRing never moves time backward: Add(t, h) with t before the
\* last recorded time leaves buckets, position and last-update time
\* unchanged; Rate(t) with t before the last recorded time returns NaN and
\* leaves the state unchanged; the last-update time never decreases.
C17_NeverBackward ==
    [][ /\ mr'.last >= mr.last
        /\ (call'.op = "Add" /\ call'.t < mr.last) => mr' = mr
        /\ (call'.op = "Rate" /\ call'.t < mr.last) =>
              (mr' = mr /\ call'.rate.nan) ]_vars

C17_Witness ==
    /\ call.op = "Rate"
    /\ call.rate.nan
    /\ call.t < mr.last
    /\ mr.buckets[mr.pos] > 0

\* C18: the ring always holds windowSize+1 buckets, and a call that advances
\* time by n >= 1 whole seconds zeroes exactly the min(n, windowSize+1)
\* oldest buckets (Add then counts its hits in the newest) and leaves every
\* other bucket unchanged; with n >= windowSize+1 no earlier count is left.
C18_AdvanceZeroesOldest ==
    [][ /\ DOMAIN mr'.buckets = 0 .. mr.numBuckets
        /\ mr'.numBuckets = mr.numBuckets
        /\ (/\ call'.op \in {"Add", "Rate"}
            /\ mr.last # 0
            /\ call'.t >= mr.last
            /\ SecondOf(call'.t) - SecondOf(mr.last) >= 1) =>
              LET n == SecondOf(call'.t) - SecondOf(mr.last)
                  len == mr.numBuckets + 1
                  k == IF n < len THEN n ELSE len
                  oldest == {(mr.pos + i) % len : i \in 1 .. k}
                  added(j) == IF call'.op = "Add" /\ j = mr'.pos
                              THEN call'.hits ELSE 0
              IN  /\ Cardinality(oldest) = k
                  /\ mr'.pos \in oldest
                  /\ \A j \in 0 .. mr.numBuckets :
                        mr'.buckets[j] = IF j \in oldest THEN added(j)
                                         ELSE mr.buckets[j] ]_vars

\* Hits in three seconds in a row on a window of one second: the call
\* advanced the window into a second of its own, the second before is kept
\* and the first one has aged out.
C18_Witness ==
    /\ mr.numBuckets = 1
    /\ call.op = "Add"
    /\ call.hits > 0
    /\ \E s \in 2 .. MaxSec :
          /\ SecondOf(call.t) = s
          /\ hist[s] = call.hits
          /\ hist[s - 1] > 0
          /\ hist[s - 2] > 0
          /\ mr.buckets[mr.pos] = hist[s]
          /\ mr.buckets[(mr.pos + 1) % 2] = hist[s - 1]

\* The second of the first hit recorded, and the hits of seconds a..b.
FirstSec == CHOOSE s \in 0 .. MaxSec :
                hist[s] > 0 /\ \A u \in 0 .. (s - 1) : hist[u] = 0
RECURSIVE HitsIn(_, _)
HitsIn(a, b) == IF a > b THEN 0 ELSE hist[a] + HitsIn(a + 1, b)
SomeHit == \E s \in 0 .. MaxSec : hist[s] > 0
SubSecond(t) == t - SecondOf(t) * TicksPerSecond

\* C19: once windowSize+1 seconds of history exist, Rate(t) =
\* ((1 - f) * oldest + sum of the windowSize newer buckets) / windowSize, f
\* being the sub-second offset of t and oldest the count of the bucket
\* windowSize seconds before the current one, whatever the buckets hold,
\* zero counts included.
C19_FullWindowRate ==
    (/\ call.op = "Rate"
     /\ ~call.rate.nan
     /\ SomeHit
     /\ SecondOf(call.t) - FirstSec >= mr.numBuckets) =>
        LET cur == SecondOf(call.t)
            w == mr.numBuckets
        IN  call.rate =
                Rat((TicksPerSecond - SubSecond(call.t)) * hist[cur - w]
                        + TicksPerSecond * HitsIn(cur - w + 1, cur),
                    TicksPerSecond * w)

\* C20: with fewer than windowSize+1 seconds of history since the first
\* sample, Rate(t) is the total of all recorded hits divided by max(1 second,
\* whole seconds elapsed since the first sample's bucket plus the sub-second
\* offset of t), for every pattern of hits, seconds without a hit included.
C20_PartialWindowRate ==
    (/\ call.op = "Rate"
     /\ ~call.rate.nan
     /\ SomeHit
     /\ SecondOf(call.t) - FirstSec < mr.numBuckets) =>
        LET elapsed == (SecondOf(call.t) - FirstSec) * TicksPerSecond
                           + SubSecond(call.t)
        IN  call.rate =
                Rat(HitsIn(0, MaxSec) * TicksPerSecond,
                    IF elapsed < TicksPerSecond THEN TicksPerSecond ELSE elapsed)

\* --------------------------------------------------- claims on the budget
\* The sessions whose IsOver has just computed its answer.
Answered == {t \in Threads : th[t].pc = "ran" /\ th[t].m = "IsOver"}
InCritical == {t \in Threads : th[t].pc \in {"locked", "ran"}}

\* C11: IsOver(now) is false when the failure rate is zero; otherwise it is
\* true exactly when failureRate / successRate exceeds the ratio; a non-zero
\* failure rate with a zero success rate is over budget for every finite
\* ratio, and the quotient never faults.
C11_IsOverByQuotient ==
    \A t \in Answered :
        LET fr == th[t].fr
            sr == th[t].sr
            r == bud.ratio
        IN  /\ (~fr.nan /\ fr.num = 0) => ~th[t].over
            /\ (~fr.nan /\ fr.num > 0 /\ ~sr.nan /\ sr.num = 0) => th[t].over
            /\ (~fr.nan /\ fr.num > 0 /\ ~sr.nan /\ sr.num > 0) =>
                  (th[t].over <=>
                      fr.num * sr.den * r.den > r.num * sr.num * fr.den)
            /\ (fr.nan \/ sr.nan) => ~th[t].over

\* Failures recorded, no success in the window: over budget.
C11_Witness ==
    \E t \in Answered :
        /\ ~th[t].fr.nan /\ th[t].fr.num > 0
        /\ ~th[t].sr.nan /\ th[t].sr.num = 0
        /\ th[t].over
        /\ bud.ratio.num = 2

\* C12: while no Failure call has been made, every IsOver returns false,
\* whatever the successes recorded, the times and the ratio.
C12_NoFailureNeverOver ==
    ~failureCalled => \A t \in Answered : ~th[t].over

C12_Witness ==
    /\ ~failureCalled
    /\ bud.ratio.num < 0
    /\ \E t \in Answered :
          /\ ~th[t].over
          /\ ~th[t].sr.nan /\ th[t].sr.num > 0

\* C13: the critical sections of Success, Failure and IsOver exclude each
\* other: at most one session is inside one, it is the holder of the mutex,
\* and a session that has returned holds nothing.
C13_MutualExclusion ==
    /\ Cardinality(InCritical) <= 1
    /\ \A t \in Threads : (mutex = t) <=> (t \in InCritical)
    /\ (mutex = 0) <=> (InCritical = {})

\* One session inside its critical section while the other waits for the
\* lock.
C13_Witness ==
    \E t, u \in Threads :
        /\ t # u
        /\ th[t].pc = "ran"
        /\ th[u].pc = "called"
        /\ mutex = t

\* C14: every outcome a session records on the shared budget adds its hit to
\* the estimator, for every interleaving of the sessions' clock reads and
\* lock acquisitions.
C14_NoHitLost ==
    \A t \in Threads :
        (th[t].pc = "ran" /\ th[t].m \in {"Success", "Failure"}) => th[t].hit

\* The estimator holds a hit / holds none.
Holds(m) == \E j \in DOMAIN m.buckets : m.buckets[j] > 0

\* C36: an IsOver whose `now` is before the last update of the failure or of
\* the success estimator answers false, one of the two rates being NaN, and
\* moves no estimator backward: the estimator it is stale for is unchanged
\* and the other one's time does not decrease.
C36_StaleIsOverIsNoData ==
    [][ \A t \in Threads :
          (/\ th[t].pc = "locked" /\ th[t].m = "IsOver"
           /\ th'[t].pc = "ran"
           /\ (th[t].now < bud.failure.last \/ th[t].now < bud.success.last))
          =>
             /\ ~th'[t].over
             /\ th'[t].fr.nan \/ th'[t].sr.nan
             /\ th'[t].fr.nan <=> th[t].now < bud.failure.last
             /\ th'[t].sr.nan <=> th[t].now < bud.success.last
             /\ bud'.failure.last >= bud.failure.last
             /\ bud'.success.last >= bud.success.last
             /\ th[t].now < bud.failure.last => bud'.failure = bud.failure
             /\ th[t].now < bud.success.last => bud'.success = bud.success
      ]_vars

\* The failure rate is a number above zero, the success estimator was updated
\* by a later-stamped call: the answer is false.
C36_Witness ==
    \E t \in Answered :
        /\ ~th[t].fr.nan /\ th[t].fr.num > 0
        /\ th[t].sr.nan
        /\ th[t].now < bud.success.last
        /\ ~th[t].over

\* ------------------------------------------ claims on concurrent sessions
\* C15: concurrent Do sessions that use the same Policy share no
\* unsynchronized mutable state: no two sessions are inside the
\* read-modify-write of Interval.Next's random source at once, and every
\* draw advances the source.
C15_NoSharedRandState ==
    /\ \A t, u \in Threads :
          (t # u /\ rth[t].pc = "read") => rth[u].pc # "read"
    /\ (\A t \in Threads : rth[t].pc = "idle") =>
          rng = rth[1].draws + rth[2].draws

\* C16: once the context is cancelled Do's result is the cancellation error,
\* also when the invocation in flight then returns an error, whatever the
\* retry decision for that error (retry, non-retryable, attempt cap reached).
C16_CancelAlwaysWins ==
    (/\ pc = "done"
     /\ cancelled
     /\ outcomes # <<>>
     /\ Last(outcomes).kind = "op") => ret = CtxErr

\* C16, amended: cancellation takes precedence only over a retry.  When the
\* invocation in flight at the cancellation returns an error that Do would
\* retry, Do makes no further invocation and returns the cancellation error;
\* when that error is not retryable or the attempt cap is reached, Do returns
\* that error.
C16_CancelWinsOverRetry ==
    (/\ pc = "done"
     /\ cancelled
     /\ outcomes # <<>>
     /\ Last(outcomes).kind = "op") =>
        LET e == Last(outcomes)
            final == \/ p.Attempts # 0 /\ Last(calls) >= p.Attempts
                     \/ ~Eligible(e)
        IN  /\ Len(calls) = Len(outcomes)
            /\ IF final THEN ret = e ELSE ret = CtxErr

\* The context was cancelled during the second invocation, whose error is not
\* on the allowlist: Do returned that error.
C16_Witness ==
    /\ pc = "done"
    /\ cancelled
    /\ Len(outcomes) = 2
    /\ ret = Last(outcomes)
    /\ ret.kind = "op"
    /\ ~Eligible(ret)
    /\ p.Attempts = 0

\* ------------------------------------------- claims on the three variants
\* C21: for MovingRateRing with window W, after a quiet period longer than
\* W+1 seconds Add(t, h) followed by Rate(t) yields h / W; after a further
\* such period with no Add, Rate yields 0; and after yet another one
\* Add(t, h) followed by Rate(t) yields h / W again.
C21_RingTimeGap ==
    vcall.op = "Rate" =>
        /\ vcall.ctx = "gapAdd" => vcall.ring = Rat(vcall.hits, mr.numBuckets)
        /\ vcall.ctx = "gap" => vcall.ring = Rat(0, 1)

\* C22: for the slice-based MovingRate with window W, a first Add(t0, h)
\* followed by Rate(t0) yields h; after a quiet period longer than W+1
\* seconds Add(t, h) followed by Rate(t) yields h / W; after a further such
\* period with no Add, Rate yields 0; after another one Add(t, h) followed by
\* Rate(t) yields h / W again.
C22_SliceTimeGap ==
    vcall.op = "Rate" =>
        /\ vcall.ctx = "firstAdd" => vcall.slice = Rat(vcall.hits, 1)
        /\ vcall.ctx = "gapAdd" =>
              vcall.slice = Rat(vcall.hits, sl.numBuckets)
        /\ vcall.ctx = "gap" => vcall.slice = Rat(0, 1)

\* The third quiet period on a window of two seconds, then Add and Rate at
\* the same instant, off the second boundary.
C22_Witness ==
    /\ sl.numBuckets = 2
    /\ gaps = 3
    /\ vcall.op = "Rate"
    /\ vcall.ctx = "gapAdd"
    /\ vcall.hits = 1
    /\ vcall.slice = [nan |-> FALSE, num |-> 1, den |-> 2]
    /\ Frac(vcall.t) # 0

\* C23: the three variants, with the same window size and the same calls at
\* non-decreasing times, return equal Rate values at every query.
C23_VariantsAgree ==
    vcall.op = "Rate" =>
        /\ vcall.ring = vcall.slice
        /\ vcall.slice = vcall.moving

\* part_003:41 and budget.go:99, the number of buckets to advance:
\* int(rt.Sub(roundDown(last)) / time.Second).
adv(last, now) == (roundDown(now) - roundDown(last)) \div TicksPerSecond

\* C38: the assertion adv > 0 of shiftWindow holds for every call that may
\* follow a reachable state of the ring and of the slice-based MovingRate, at
\* any time: whenever the estimator has been updated and the rounded-down
\* time of the call is after the last update, the number of buckets to
\* advance is at least one.
C38_AdvanceAssertionHolds ==
    \A t \in 0 .. MaxNow :
        /\ (mr.last # 0 /\ roundDown(t) > mr.last) => adv(mr.last, t) > 0
        /\ (sl.lastUpdate # 0 /\ roundDown(t) > sl.lastUpdate) =>
              adv(sl.lastUpdate, t) > 0

\* The last update lies inside a second and the next call may come at the
\* following whole second: the assertion is evaluated with adv = 1.
C38_Witness ==
    /\ vcall.op = "Rate"
    /\ mr.last = sl.lastUpdate
    /\ Frac(mr.last) # 0
    /\ \E t \in 0 .. MaxNow :
          /\ roundDown(t) > mr.last
          /\ t - mr.last < TicksPerSecond
          /\ adv(mr.last, t) = 1

\* ---------------------------------------- further claims on the estimator
\* The Rate call made last was not before the last recorded time.
RateAnswered == call.op = "Rate" /\ call.t = mr.last
AllZero == \A j \in DOMAIN mr.buckets : mr.buckets[j] = 0

\* C24: with windowSize >= 1 and non-negative hit counts, Rate(t) for every t
\* not before the last recorded time is a finite number >= 0, never NaN.
C24_RateFiniteNonNegative ==
    RateAnswered =>
        /\ ~call.rate.nan
        /\ call.rate.den > 0
        /\ call.rate.num >= 0

\* A query at the very instant of the last Add, with hits in the window.
C24_Witness ==
    /\ RateAnswered
    /\ hist[SecondOf(call.t)] > 0
    /\ SubSecond(call.t) # 0
    /\ call.rate.num > 0

\* C25: a Rate query before any Add returns 0, and a Rate query on a window
\* whose buckets are all zero returns 0, not NaN, at every query time, an
\* exact second boundary included.
C25_EmptyWindowRateZero ==
    (RateAnswered /\ AllZero) => call.rate = [nan |-> FALSE, num |-> 0, den |-> 1]

\* Hits were recorded and have all aged out; the query falls on a second
\* boundary.
C25_Witness ==
    /\ RateAnswered
    /\ AllZero
    /\ SomeHit
    /\ SubSecond(call.t) = 0
    /\ call.rate = [nan |-> FALSE, num |-> 0, den |-> 1]

\* C26: Rate(t) called again with the same t and no Add in between returns
\* the same value and leaves the estimator unchanged.
C26_RateIdempotent ==
    RateAnswered => RingRate(mr, call.t) = [mr |-> mr, rate |-> call.rate]

C26_Witness ==
    /\ RateAnswered
    /\ call.rate.num > 0
    /\ SubSecond(call.t) # 0
    /\ mr.numBuckets = 2
    /\ \E j \in DOMAIN mr.buckets : j # mr.pos /\ mr.buckets[j] > 0

\* C37: with no Add between two queries the reported rate never increases as
\* time advances: Rate(t2) <= Rate(t1) for t1 <= t2, within a second and
\* across a second boundary.
C37_RateNeverIncreases ==
    [][ (/\ call.op = "Rate" /\ ~call.rate.nan
         /\ call'.op = "Rate" /\ ~call'.rate.nan
         /\ call.t <= call'.t)
        => call'.rate.num * call.rate.den <= call.rate.num * call'.rate.den
      ]_vars

\* ------------------------------------------- claims on IntervalBackOff.Next
BoDone == bo.phase = "done"
\* A non-negative quantity num / den as a whole number of duration units:
\* the largest k with k <= num / den.
BoFloor(num, den) == num \div den
BoClamp(x, b) == IF x > b.Max THEN b.Max ELSE IF x < b.Min THEN b.Min ELSE x

\* C27: Next(a) lies within [Min, Max] for every attempt number a >= 1, every
\* Factor, every Jitter in [0, 1] and every draw, with or without a random
\* source, whenever Min <= Max.
C27_NextWithinMinMax ==
    (BoDone /\ bo.b.Min <= bo.b.Max) =>
        /\ bo.b.Min <= bo.next /\ bo.next <= bo.b.Max
        /\ bo.b.Min <= bo.succ /\ bo.succ <= bo.b.Max

\* A factor below one, jittered: the product is under Min and Next is Min.
C27_Witness ==
    /\ BoDone
    /\ bo.b.hasRand
    /\ bo.b.FactorNum < bo.b.FactorDen
    /\ bo.b.JitterNum > 0
    /\ bo.b.Min = 4
    /\ bo.b.Max = 8
    /\ bo.next = 4

\* C28: with no random source, Factor >= 1 and Min <= Max,
\* Next(a) <= Next(a+1) for every attempt number a >= 1, those for which
\* Min * Factor^a is beyond the range of the duration type included.
C28_NextMonotone ==
    (/\ BoDone
     /\ ~bo.b.hasRand
     /\ bo.b.FactorNum >= bo.b.FactorDen
     /\ bo.b.Min <= bo.b.Max) => bo.next <= bo.succ

\* C29: Next(a) = clamp(x, Min, Max) with base = Min * Factor^a, x = base
\* with no random source and x = base*(1 - Jitter) + r * 2 * base * Jitter
\* with one: the jitter comes before the clamp and a itself is the exponent.
C29_NextIsClampedJitteredBase ==
    LET b == bo.b
        N == Pow(b.FactorNum, bo.a)
        D == Pow(b.FactorDen, bo.a)
        base == BoFloor(b.Min * N, D)
        xnum == base * ((b.JitterDen - b.JitterNum) * RandDen
                            + 2 * bo.r * b.JitterNum)
        xden == b.JitterDen * RandDen
    IN  BoDone =>
            IF b.hasRand
            THEN bo.next = BoClamp(BoFloor(xnum, xden), b)
            ELSE bo.next = BoClamp(base, b)

\* C30: UntilAttempts backs off exponentially: the sleep after attempt k is
\* non-decreasing in k, larger than `sleep` for later attempts, and never
\* above 10 * sleep.
C30_UntilAttemptsBacksOff ==
    \A sleep \in BoSleeps :
        (BoDone /\ bo.b = UntilAttemptsInterval(sleep)) =>
            /\ bo.next <= bo.succ
            /\ bo.next <= 10 * sleep
            /\ bo.a >= 2 => bo.next > sleep

\* ------------------------------------- claims on the attempt counter of Do
\* The sleeps of the session that ended before its i-th invocation began.
SleepsBefore(i) == Cardinality({j \in 1 .. Len(sleeps) : sleeps[j].inv < i})

\* C31: the attempt number passed to an invocation is 1 plus the number of
\* sleeps (budget-blocked and retry sleeps) performed before it, hence 1 for
\* the first invocation only when no budget-blocked iteration preceded it and
\* strictly increasing over the invocations; the argument of Interval.Next at
\* each sleep is the attempt counter at that moment.
C31_AttemptCountsSleeps ==
    /\ \A i \in 1 .. Len(calls) : calls[i] = 1 + SleepsBefore(i)
    /\ \A i, j \in 1 .. Len(calls) : i < j => calls[i] < calls[j]
    /\ calls # <<>> =>
          (calls[1] = 1 <=> ~\E j \in 1 .. Len(sleeps) : sleeps[j].inv = 0)
    /\ \A j \in 1 .. Len(sleeps) :
          /\ sleeps[j].arg = j
          /\ sleeps[j].dur = IntervalNext(PolicyInterval, j, sleeps[j].r)
    /\ pc = "sleeping" =>
          /\ Last(sleeps).arg = attempt
          /\ sleepDur = Last(sleeps).dur

C31_Witness ==
    /\ calls = <<2, 4>>
    /\ Len(sleeps) = 3
    /\ sleeps[1].kind = "budget"
    /\ sleeps[2].kind = "retry"
    /\ sleeps[3].kind = "budget"
    /\ p.Interval.kind = "backoff"
    /\ pc = "inop"

\* C32: the attempt cap is tested only after an invocation.  An iteration in
\* which the Budget reports over sleeps whatever the counter is; outside an
\* invocation Do returns only the cancellation error; and an invocation made
\* with the counter at or above a nonzero Attempts is the last one, its
\* outcome being returned with no sleep.
C32_CapOnlyAfterInvocation ==
    [][ /\ (Len(isOverLog') = Len(isOverLog) + 1 /\ Last(isOverLog')) =>
              /\ pc' = "sleeping"
              /\ ret' = NoReturn
              /\ calls' = calls
        /\ (pc \in {"loop", "sleeping"} /\ pc' = "done") => ret' = CtxErr
        /\ (pc = "sleeping" /\ pc' # "sleeping") =>
              /\ pc' = "loop"
              /\ attempt' = attempt + 1
        /\ (pc = "inop" /\ pc' # "inop"
              /\ p.Attempts # 0 /\ attempt >= p.Attempts) =>
              /\ pc' = "done"
              /\ ret' = Last(outcomes')
              /\ sleeps' = sleeps
              /\ calls' = calls ]_vars

C32_Witness ==
    /\ pc = "done"
    /\ p.Attempts = 1
    /\ calls = <<3>>
    /\ Len(sleeps) = 2
    /\ NumKind(sleeps, "budget") = 2
    /\ ret.kind = "op"
    /\ ~cancelled

\* C33: whatever the Budget answers, whatever the allowlist and the operation,
\* a session with Attempts = N >= 1 invokes the operation at most N times and
\* the k-th invocation receives an attempt number >= k.
C33_AtMostNInvocations ==
    p.Attempts >= 1 =>
        /\ Len(calls) <= p.Attempts
        /\ \A k \in 1 .. Len(calls) : calls[k] >= k

C33_Witness ==
    /\ p.Attempts = 2
    /\ p.Budget = "custom"
    /\ ~p.OnCodes.isNil
    /\ calls = <<1, 3>>
    /\ pc = "done"
    /\ ret.kind = "op"

\* C39: with an allowlist that is not nil but empty no error is retried: the
\* operation is invoked at most once and its outcome is returned at once, with
\* no retry sleep; with a nil allowlist every error below the attempt cap is
\* followed by a retry sleep.
C39_EmptyAllowListNeverRetries ==
    /\ (~p.OnCodes.isNil /\ p.OnCodes.codes = <<>>) =>
          /\ Len(calls) <= 1
          /\ NumKind(sleeps, "retry") = 0
          /\ Len(outcomes) = 1 => (pc = "done" /\ ret = outcomes[1])
    /\ p.OnCodes.isNil =>
          \A i \in 1 .. Len(outcomes) :
              (outcomes[i].kind = "op" /\ ~CapReached(p, calls[i])) =>
                  \E j \in 1 .. Len(sleeps) :
                      sleeps[j].kind = "retry" /\ sleeps[j].inv = i

C39_Witness ==
    /\ ~p.OnCodes.isNil
    /\ p.OnCodes.codes = <<>>
    /\ p.Attempts = 0
    /\ p.Budget = "custom"
    /\ calls = <<2>>
    /\ pc = "done"
    /\ ret.kind = "op"
    /\ ret.hasCode

\* C40: the outcome of every invocation is recorded in the Budget before the
\* session's next IsOver check and before its retry sleep begins.
C40_OutcomeRecordedBeforeNextCheck ==
    [][ /\ Len(isOverLog') = Len(isOverLog) + 1 =>
              /\ Len(outcomes) = Len(calls)
              /\ budget.succ + budget.fail = Len(outcomes)
        /\ (p.Budget = "custom" /\ Len(sleeps') = Len(sleeps) + 1
              /\ Last(sleeps').kind = "retry") =>
              /\ budget'.fail = budget.fail + 1
              /\ budget'.succ + budget'.fail = Len(outcomes') ]_vars

C40_Witness ==
    /\ p.Budget = "custom"
    /\ Len(isOverLog) = 2
    /\ isOverLog[2]
    /\ Len(outcomes) = 1
    /\ budget.fail = 1
    /\ pc = "sleeping"
    /\ Last(sleeps).kind = "budget"

\* ------------------------------------------ claims on the shared budget
BudgetBlocked(i) == sess[i].pc = "sleeping" /\ sess[i].blocked
Proceeds(i) == sess[i].pc \in {"inop", "done"}

\* C34: no session is locked out by a shared ratio budget for ever: while
\* time advances, invocations return and sleeps end, every budget-blocked
\* session eventually invokes the operation or returns.
C34_NoLockout ==
    \A i \in Threads : BudgetBlocked(i) ~> Proceeds(i)

\* C34, amended: from the moment on at which no session records a failure
\* any more (the resource is up), every budget-blocked session eventually
\* invokes the operation or returns.
C34_NoLockoutOnceFailuresStop ==
    \A i \in Threads : (svc = "up" /\ BudgetBlocked(i)) ~> Proceeds(i)

\* A session that was budget-blocked invokes the operation after the
\* resource has recovered.
C34_Witness ==
    \E i \in Threads :
        /\ svc = "up"
        /\ sess[i].pc = "inop"
        /\ sess[i].blocked

\* The hit recorded in second tf has left the failure estimator's window at
\* time t: the ring keeps numBuckets+1 one-second buckets (part_003:16-21),
\* so the bucket of second tf is given to another second numBuckets+1
\* seconds later.
AgedOut(tf, t) == roundDown(t) - tf >= (BudgetWindow + 1) * TicksPerSecond

\* C35: in a single session on a ratio budget, whatever the ratio, whose
\* window holds no success hits, every IsOver check after a failed invocation
\* blocks the iteration, so that the operation is not invoked, as long as
\* the time of the check is less than the window after the second of the
\* failure; the check at which the hit has aged out lets the operation be
\* invoked again.
C35_BlockedUntilFailureAgesOut ==
    [][ (/\ sess[1].pc = "isover"
         /\ sess'[1].pc # "isover"
         /\ failAt # 0
         /\ ~Holds(shared.success))
        =>
         IF AgedOut(failAt, sess[1].now)
         THEN sess'[1].pc = "inop"
         ELSE sess'[1].pc = "sleeping" /\ sess'[1].blocked
      ]_vars

\* The session failed, was budget-blocked, and invokes the operation again
\* while the resource is still down.
C35_Witness ==
    /\ svc = "down"
    /\ sess[1].pc = "inop"
    /\ sess[1].blocked
    /\ failAt # 0
    /\ ~Holds(shared.success)

====
